---- MODULE Spec2Model ----
(***************************************************************************)
(* Model of typhon/plugins/core.py: the process-wide signal registry, the  *)
(* SignalConnection that fans an ophyd signal out to PyDM listener         *)
(* channels and routes edits back, the SignalPlugin that builds the        *)
(* connections, and (at interface level) the signal panel's rows.          *)
(*                                                                         *)
(* Every handler is one action.  What the signal answers to get(),         *)
(* describe(), put(), subscribe() and .connected is an input of the        *)
(* handler, chosen from small sets; an answer may be "raises".             *)
(***************************************************************************)
EXTENDS Integers, Sequences, FiniteSets, TLC

\* ------------------------------------------------------------------------
\* Bounds of the model
\* ------------------------------------------------------------------------
\* Connection objects that are ever constructed and kept.
MaxConns == 2
\* Edits waiting in the event loop for their queued put_value call.
MaxQueue == 1
\* Rows a panel is given.
MaxRows == 3

\* ------------------------------------------------------------------------
\* Python values.  A value is [rep, v]: the Python type it is an instance
\* of and its printed form.
\* ------------------------------------------------------------------------
PyInt(t) == [rep |-> "int", v |-> t]
PyFloat(t) == [rep |-> "float", v |-> t]
PyStr(t) == [rep |-> "str", v |-> t]
PyArray(t) == [rep |-> "array", v |-> t]
PyList(t) == [rep |-> "list", v |-> t]
PyTuple(t) == [rep |-> "tuple", v |-> t]
PyBool(t) == [rep |-> "bool", v |-> t]
\* None, and the answer of a dict lookup that has no such key.
PyNone == [rep |-> "NoneType", v |-> "None"]
Absent == [rep |-> "absent", v |-> ""]
\* The outcome "an exception was raised" of a conversion or a signal call.
Raises == [rep |-> "raise", v |-> ""]

\* Truth value of a Python object, as `if val:` tests it.
Truthy(p) ==
    CASE p.rep \in {"NoneType", "absent"} -> FALSE
      [] p.rep = "int" -> p.v # "0"
      [] p.rep = "float" -> p.v # "0.0"
      [] p.rep = "bool" -> p.v = "True"
      [] OTHER -> p.v # ""

\* int(x)
IntOf(p) ==
    CASE p.rep = "int" -> p
      [] p.rep = "float" ->
            (CASE p.v \in {"1.0", "1.5"} -> PyInt("1")
               [] p.v = "2.0" -> PyInt("2")
               [] OTHER -> PyInt("0"))
      [] p.rep = "str" -> IF p.v \in {"0", "1", "2"} THEN PyInt(p.v) ELSE Raises
      [] OTHER -> Raises

\* float(x)
FloatOf(p) ==
    LET widen(t) == CASE t = "0" -> "0.0" [] t = "1" -> "1.0" [] t = "2" -> "2.0"
    IN  CASE p.rep = "float" -> p
          [] p.rep = "int" -> PyFloat(widen(p.v))
          [] p.rep = "str" ->
                (CASE p.v \in {"0", "1", "2"} -> PyFloat(widen(p.v))
                   [] p.v \in {"0.0", "1.0", "1.5", "2.0"} -> PyFloat(p.v)
                   [] OTHER -> Raises)
          [] OTHER -> Raises

\* str(x)
StrOf(p) == PyStr(p.v)

\* The types a connection can latch (supported_types), and "None" for the
\* unset signal_type.
SupportedTypes == <<"int", "float", "str", "array">>
TypeTags == {"int", "float", "str", "array"}
NoType == "None"

\* signal_type(value): calling the latched type on a value.  Calling None
\* raises TypeError.
Coerce(t, p) ==
    CASE t = "int" -> IntOf(p)
      [] t = "float" -> FloatOf(p)
      [] t = "str" -> StrOf(p)
      [] OTHER -> Raises

\* ophyd's _type_map[dtype][0].
TypeMap(dtype) ==
    CASE dtype = "number" -> "float"
      [] dtype = "array" -> "array"
      [] dtype = "string" -> "str"
      [] dtype = "integer" -> "int"

\* The typed overload new_value_signal[t] accepts instances of t only.
EmitAccepts(t, p) == p.rep = t

\* ------------------------------------------------------------------------
\* The objects of a run
\* ------------------------------------------------------------------------
\* Signal objects, two under each name.
Signals == {"s1", "s2", "s3", "s4", "s5", "s6"}
NoSignal == "none"
Names == {"A", "B", "C"}
SigName(s) ==
    CASE s \in {"s1", "s2"} -> "A"
      [] s \in {"s3", "s4"} -> "B"
      [] s \in {"s5", "s6"} -> "C"

\* Listener channels, both addressing "A".
Channels == {"c1", "c2"}
ChanAddr(ch) == "A"
\* channel.value_signal: c2 has none (a read-only widget); c1 has no
\* array overload, so value_signal[np.ndarray] raises KeyError.
ChanHasValueSignal(ch) == ch = "c1"
ChanValueTypes(ch) == {"int", "float", "str"}

ConnIds == 1 .. MaxConns
NoConn == 0
NoCid == 0

\* Values a signal delivers or get() returns.
SignalValues == {PyFloat("1.5"), PyArray("[1 2]")}
\* Values a widget sends on its typed edit stream.
EditValues == {PyInt("1"), PyStr("x")}
\* Alarm severities delivered with a value update; PyNone when not given.
Severities == {PyNone, PyInt("2")}

\* Keys from Signal.describe() and from the metadata callback, in the
\* iteration order of _key_to_signal.
DescribeKeys == <<"units", "precision", "lower_ctrl_limit", "upper_ctrl_limit", "enum_strs">>
MetadataKeys == <<"connected", "write_access">>
KeyOrder == DescribeKeys \o MetadataKeys
KeySet == {KeyOrder[i] : i \in 1 .. Len(KeyOrder)}
KeyToSignal(key) ==
    CASE key = "units" -> "unit_signal"
      [] key = "precision" -> "prec_signal"
      [] key = "lower_ctrl_limit" -> "lower_ctrl_limit_signal"
      [] key = "upper_ctrl_limit" -> "upper_ctrl_limit_signal"
      [] key = "enum_strs" -> "enum_strings_signal"
      [] key = "connected" -> "connection_state_signal"
      [] key = "write_access" -> "write_access_signal"

\* A dict over the known keys; a key the dict lacks maps to Absent.
Dict(given) == [key \in KeySet |-> IF key \in DOMAIN given THEN given[key] ELSE Absent]

\* Answers of signal.describe()[signal.name]: [ok, dtype, md], or a raise.
DescribeRaises == [ok |-> FALSE, dtype |-> "", md |-> Dict(<<>>)]
DescribeResults ==
    { [ok |-> TRUE, dtype |-> "integer",
       md |-> Dict([enum_strs |-> PyList("Open,Closed"), precision |-> PyInt("0"),
                    units |-> PyStr("")])],
      [ok |-> TRUE, dtype |-> "number",
       md |-> Dict([precision |-> PyInt("3"), units |-> PyStr("mm"),
                    lower_ctrl_limit |-> PyFloat("1.0"),
                    upper_ctrl_limit |-> PyFloat("2.0")])],
      [ok |-> TRUE, dtype |-> "array", md |-> Dict(<<>>)] }
DescribeAnswers == DescribeResults \cup {DescribeRaises}

\* Keyword arguments of a metadata callback.
MetadataKwargs ==
    { Dict([connected |-> PyBool("True"), write_access |-> PyBool("False")]),
      Dict([connected |-> PyBool("False"), precision |-> PyInt("2"),
            enum_strs |-> PyList("On,Off"), units |-> PyNone]) }

\* ------------------------------------------------------------------------
\* State
\* ------------------------------------------------------------------------
VARIABLES
    signal_registry,  \* name -> registered signal, NoSignal when absent
    connections,      \* SignalPlugin.connections: address -> connection
    conn,             \* the SignalConnection objects
    subs,             \* per signal: its callback registrations
    queue,            \* queued put_value calls (Qt.QueuedConnection)
    chans,            \* per channel: what the listener has observed
    unresolved,       \* addresses whose last connection attempt found no signal
    panel,            \* the panel's rows, in insertion order
    last,             \* the handler that ran last and how it ended
    emitted           \* the notifications the last handler emitted, in order

vars == <<signal_registry, connections, conn, subs, queue, chans, unresolved, panel, last, emitted>>

\* A slot of conn that holds no object.
Unbuilt ==
    [state |-> "none", address |-> "", signal |-> NoSignal, signal_type |-> NoType,
     listeners |-> {}, wired |-> {}, cid |-> NoCid, mid |-> NoCid]

\* What one handler run is recorded as: the handler, the connection and
\* the channel it ran for, the exception it caught and the one that left
\* it, and per handler the argument or the answers the signal gave.
Ran(op, k, ch, caught, raised) ==
    [op |-> op, conn |-> k, chan |-> ch, caught |-> caught, raised |-> raised,
     fetch |-> "na", life |-> "na", retry |-> FALSE, notified |-> FALSE, arg |-> Absent,
     described |-> DescribeRaises, kwargs |-> Dict(<<>>), severity |-> PyNone]

Emission(stream, typ, val) == [stream |-> stream, typ |-> typ, val |-> val]

\* ------------------------------------------------------------------------
\* Signal registry
\* ------------------------------------------------------------------------
\* A registration that overwrites the entry of a name that is present.
register_signal_overwriting(reg, s) == [reg EXCEPT ![SigName(s)] = s]

\* register_signal(signal): the registry afterwards.
register_signal(reg, s) ==
    IF reg[SigName(s)] # NoSignal
    THEN reg
    ELSE [reg EXCEPT ![SigName(s)] = s]

\* ------------------------------------------------------------------------
\* SignalConnection: each method as the effect it has on the connection c
\* ------------------------------------------------------------------------
\* A value callback that reads the type from describe() on every update.
send_new_value_relatching(c, value, severity, desc) ==
    IF ~desc.ok
    THEN [raised |-> "Exception", signal_type |-> c.signal_type, emits |-> <<>>]
    ELSE LET t == TypeMap(desc.dtype)
             coerced == IF t # "array" THEN Coerce(t, value) ELSE value
         IN  [raised |-> "none", signal_type |-> t,
              emits |-> IF coerced # Raises /\ EmitAccepts(t, coerced)
                        THEN <<Emission("new_value_signal", t, coerced)>>
                        ELSE <<>>]

\* A value callback whose failed value broadcast ends the whole callback.
send_new_value_single_try(c, value, severity, desc) ==
    IF c.signal_type = NoType /\ ~desc.ok
    THEN [raised |-> "Exception", signal_type |-> c.signal_type, emits |-> <<>>]
    ELSE LET t == IF c.signal_type = NoType THEN TypeMap(desc.dtype) ELSE c.signal_type
             coerced == IF t # "array" THEN Coerce(t, value) ELSE value
         IN  [raised |-> "none", signal_type |-> t,
              emits |-> IF coerced # Raises /\ EmitAccepts(t, coerced)
                        THEN <<Emission("new_value_signal", t, coerced)>>
                             \o (IF severity # PyNone
                                 THEN <<Emission("new_severity_signal", "", severity)>>
                                 ELSE <<>>)
                        ELSE <<>>]

\* send_new_value(value, severity): desc is what describe() answers if it
\* is asked.  Gives the latched type, the emissions and whether the call
\* raised.
send_new_value(c, value, severity, desc) ==
    IF c.signal_type = NoType /\ ~desc.ok
    THEN [raised |-> "Exception", signal_type |-> c.signal_type, emits |-> <<>>]
    ELSE LET t == IF c.signal_type = NoType THEN TypeMap(desc.dtype) ELSE c.signal_type
             coerced == IF t # "array" THEN Coerce(t, value) ELSE value
             valueEmits ==
                 IF coerced # Raises /\ EmitAccepts(t, coerced)
                 THEN <<Emission("new_value_signal", t, coerced)>>
                 ELSE <<>>
             severityEmits ==
                 IF severity # PyNone
                 THEN <<Emission("new_severity_signal", "", severity)>>
                 ELSE <<>>
         IN  [raised |-> "none", signal_type |-> t, emits |-> valueEmits \o severityEmits]

\* The Python types a metadata stream is declared with; emit raises
\* TypeError for a value of another type.
StreamAccepts(stream, val) ==
    CASE stream \in {"connection_state_signal", "write_access_signal"} -> val.rep = "bool"
      [] stream = "prec_signal" -> val.rep = "int"
      [] stream = "unit_signal" -> val.rep = "str"
      [] stream = "enum_strings_signal" -> val.rep = "tuple"
      [] OTHER -> val.rep \in {"float", "int"}

\* An info dict in which the description overrides the received fields.
MetadataInfo_describe_wins(kwargs, connected, desc) ==
    LET merged == IF connected
                  THEN [key \in KeySet |-> IF desc.md[key] # Absent THEN desc.md[key] ELSE kwargs[key]]
                  ELSE kwargs
        enum_strs == merged["enum_strs"]
    IN  IF enum_strs \notin {Absent, PyNone}
        THEN [merged EXCEPT !["enum_strs"] = PyTuple(enum_strs.v)]
        ELSE merged

\* The info dict of send_metadata: describe() overridden by the received
\* fields when the signal is connected, the received fields otherwise, with
\* enum_strs made a tuple.
MetadataInfo(kwargs, connected, desc) ==
    LET merged == IF connected
                  THEN [key \in KeySet |-> IF kwargs[key] # Absent THEN kwargs[key] ELSE desc.md[key]]
                  ELSE kwargs
        enum_strs == merged["enum_strs"]
    IN  IF enum_strs \notin {Absent, PyNone}
        THEN [merged EXCEPT !["enum_strs"] = PyTuple(enum_strs.v)]
        ELSE merged

RECURSIVE MetadataEmits(_, _)
\* The loop over _key_to_signal, from key number i on.
MetadataEmits(info, i) ==
    IF i > Len(KeyOrder)
    THEN <<>>
    ELSE LET key == KeyOrder[i]
             value == info[key]
         IN  (IF value # Absent /\ value # PyNone /\ StreamAccepts(KeyToSignal(key), value)
              THEN <<Emission(KeyToSignal(key), "", value)>>
              ELSE <<>>) \o MetadataEmits(info, i + 1)

\* send_metadata(**kwargs): connected is signal.connected, desc what
\* describe() answers if it is asked.
send_metadata(c, kwargs, connected, desc) ==
    IF connected /\ ~desc.ok
    THEN [raised |-> "Exception", emits |-> <<>>]
    ELSE [raised |-> "none", emits |-> MetadataEmits(MetadataInfo(kwargs, connected, desc), 1)]

RECURSIVE DescribedEmits(_, _)
\* The loop of add_listener over precision, enum_strs and units.
DescribedEmits(md, fields) ==
    IF fields = <<>>
    THEN <<>>
    ELSE LET val == md[Head(fields)]
         IN  (IF Truthy(val)
              THEN <<Emission(KeyToSignal(Head(fields)), "",
                              IF val.rep = "list" THEN PyTuple(val.v) ELSE val)>>
              ELSE <<>>) \o DescribedEmits(md, Tail(fields))

\* The edit streams add_listener connects to put_value.
EditWiring(ch) ==
    IF ChanHasValueSignal(ch)
    THEN {<<ch, SupportedTypes[i]>> : i \in {j \in 1 .. Len(SupportedTypes) : SupportedTypes[j] \in ChanValueTypes(ch)}}
    ELSE {}

\* An attach that reports the connection and wires the edits whatever the
\* fetch gave.
add_listener_unguarded(c, ch, got, desc, desc2) ==
    [raised |-> "none",
     fetch |-> IF got = Raises \/ ~desc.ok THEN "failed" ELSE "ok",
     conn |-> [c EXCEPT !.listeners = @ \cup {ch}, !.wired = @ \cup EditWiring(ch)],
     emits |-> <<Emission("new_severity_signal", "", PyInt("0")),
                 Emission("write_access_signal", "", PyBool("True")),
                 Emission("connection_state_signal", "", PyBool("True"))>>]

\* An attach that sends the current value before it reports the connection.
add_listener_value_first(c, ch, got, desc, desc2) ==
    LET attached == [c EXCEPT !.listeners = @ \cup {ch}]
        baseline == <<Emission("new_severity_signal", "", PyInt("0"))>>
    IN  IF got = Raises \/ ~desc.ok
        THEN [raised |-> "none", fetch |-> "failed", conn |-> attached, emits |-> baseline]
        ELSE LET report == <<Emission("write_access_signal", "", PyBool("True")),
                             Emission("connection_state_signal", "", PyBool("True"))>>
                     \o DescribedEmits(desc.md, <<"precision", "enum_strs", "units">>)
                 sent == send_new_value(attached, got, PyNone, desc2)
             IN  IF sent.raised # "none"
                 THEN [raised |-> sent.raised, fetch |-> "ok", conn |-> attached,
                       emits |-> baseline \o report]
                 ELSE [raised |-> "none", fetch |-> "ok",
                       conn |-> [attached EXCEPT !.signal_type = sent.signal_type,
                                                 !.wired = @ \cup EditWiring(ch)],
                       emits |-> baseline \o sent.emits \o report]

\* An attach that wires the edit streams before it sends the current value.
add_listener_wiring_first(c, ch, got, desc, desc2) ==
    LET attached == [c EXCEPT !.listeners = @ \cup {ch}]
        baseline == <<Emission("new_severity_signal", "", PyInt("0"))>>
    IN  IF got = Raises \/ ~desc.ok
        THEN [raised |-> "none", fetch |-> "failed", conn |-> attached, emits |-> baseline]
        ELSE LET report == baseline
                     \o <<Emission("write_access_signal", "", PyBool("True")),
                          Emission("connection_state_signal", "", PyBool("True"))>>
                     \o DescribedEmits(desc.md, <<"precision", "enum_strs", "units">>)
                 hooked == [attached EXCEPT !.wired = @ \cup EditWiring(ch)]
                 sent == send_new_value(attached, got, PyNone, desc2)
             IN  IF sent.raised # "none"
                 THEN [raised |-> sent.raised, fetch |-> "ok", conn |-> hooked, emits |-> report]
                 ELSE [raised |-> "none", fetch |-> "ok",
                       conn |-> [hooked EXCEPT !.signal_type = sent.signal_type],
                       emits |-> report \o sent.emits]

\* add_listener(channel): got is what get() answers, desc what describe()
\* answers in add_listener, desc2 what it answers in send_new_value.
add_listener(c, ch, got, desc, desc2) ==
    LET attached == [c EXCEPT !.listeners = @ \cup {ch}]
        baseline == <<Emission("new_severity_signal", "", PyInt("0"))>>
    IN  IF got = Raises \/ ~desc.ok
        THEN [raised |-> "none", fetch |-> "failed", conn |-> attached, emits |-> baseline]
        ELSE LET report == baseline
                     \o <<Emission("write_access_signal", "", PyBool("True")),
                          Emission("connection_state_signal", "", PyBool("True"))>>
                     \o DescribedEmits(desc.md, <<"precision", "enum_strs", "units">>)
                 sent == send_new_value(attached, got, PyNone, desc2)
             IN  IF sent.raised # "none"
                 THEN [raised |-> sent.raised, fetch |-> "ok", conn |-> attached, emits |-> report]
                 ELSE [raised |-> "none", fetch |-> "ok",
                       conn |-> [attached EXCEPT !.signal_type = sent.signal_type,
                                                 !.wired = @ \cup EditWiring(ch)],
                       emits |-> report \o sent.emits]

\* A put_value without its try block: the failure leaves the call.
put_value_uncaught(c, new_val, putOK) ==
    LET cast == IF c.signal_type # "array" THEN Coerce(c.signal_type, new_val) ELSE new_val
    IN  IF cast = Raises \/ ~putOK
        THEN [raised |-> "Exception", notified |-> FALSE, put |-> Absent]
        ELSE [raised |-> "none", notified |-> FALSE, put |-> cast]

\* raise_to_operator(exc): the operator is notified and the call returns.
raise_to_operator(exc) == [raised |-> "none", notified |-> TRUE, put |-> Absent]

\* put_value(new_val): putOK is whether signal.put accepts the value.  Gives
\* the value put (Absent when none was), whether the operator was notified
\* and the exception that left the call.
put_value(c, new_val, putOK) ==
    LET cast == IF c.signal_type # "array" THEN Coerce(c.signal_type, new_val) ELSE new_val
    IN  IF cast = Raises
        THEN raise_to_operator("TypeError")
        ELSE IF ~putOK
        THEN raise_to_operator("Exception")
        ELSE [raised |-> "none", notified |-> FALSE, put |-> cast]

\* signal.subscribe(callback, event_type): a handle no registration of the
\* signal holds, and the registrations with the connection k's callback
\* for the event ev added under it.
NewHandle(registered) ==
    CHOOSE h \in 1 .. Cardinality(registered) + 1 : \A r \in registered : r.cid # h
subscribe(registered, h, ev, k) ==
    registered \cup {[cid |-> h, ev |-> ev, conn |-> k]}

\* A close that releases the value subscription only.
close_value_only(c, registered) ==
    {r \in registered : r.cid # c.cid}

\* close(): the signal's registrations afterwards.
close(c, registered) ==
    {r \in registered : r.cid \notin {c.cid, c.mid}}

\* remove_listener(channel, destroying): the connection afterwards.  The
\* edit streams are disconnected unless the channel is being destroyed;
\* the default removal then takes the channel off the listeners.
remove_listener(c, ch, destroying) ==
    [c EXCEPT !.wired = IF ChanHasValueSignal(ch) /\ ~destroying
                        THEN {w \in @ : w[1] # ch}
                        ELSE @,
              !.listeners = @ \ {ch}]

\* SignalConnection(channel, address) for the object k: sub tells which
\* subscribe call, if any, raises.  Gives the object, the registrations and
\* handles afterwards, the emissions and the exception that ended it.
SignalConnection_init(k, ch, reg, registered, got, desc, desc2, sub) ==
    LET address == ChanAddr(ch)
        s == reg[address]
        base == [Unbuilt EXCEPT !.state = "open", !.address = address]
        failed(exc, c, r) ==
            [raised |-> exc, fetch |-> "na", conn |-> c, subs |-> r, emits |-> <<>>]
    IN  IF s = NoSignal
        THEN failed("KeyError", Unbuilt, registered)
        ELSE IF sub = "value"
        THEN failed("Exception", Unbuilt, registered)
        ELSE LET cid == NewHandle(registered[s])
                 valued == [base EXCEPT !.signal = s, !.cid = cid]
                 r1 == [registered EXCEPT ![s] = subscribe(@, cid, "value", k)]
             IN  IF sub = "meta"
                 THEN failed("Exception", valued, r1)
                 ELSE LET mid == NewHandle(r1[s])
                          both == [valued EXCEPT !.mid = mid]
                          r2 == [r1 EXCEPT ![s] = subscribe(@, mid, "meta", k)]
                          added == add_listener(both, ch, got, desc, desc2)
                      IN  [raised |-> added.raised, fetch |-> added.fetch, conn |-> added.conn,
                           subs |-> r2, emits |-> added.emits]

\* ------------------------------------------------------------------------
\* Listener channels: what a widget observes of the emissions it receives
\* ------------------------------------------------------------------------
Observe(o, e) ==
    CASE e.stream = "connection_state_signal" /\ e.val = PyBool("True") ->
            [o EXCEPT !.connected = TRUE]
      [] e.stream = "new_severity_signal" ->
            [o EXCEPT !.severity = e.val.v]
      [] OTHER -> o

RECURSIVE ObserveAll(_, _)
ObserveAll(o, emits) ==
    IF emits = <<>> THEN o ELSE ObserveAll(Observe(o, Head(emits)), Tail(emits))

\* The emissions of a connection reach the channels attached to it.
Deliver(observed, listeners, emits) ==
    [ch \in Channels |-> IF ch \in listeners
                         THEN ObserveAll(observed[ch], emits)
                         ELSE observed[ch]]

\* A widget that has observed nothing yet.
Unattached == [connected |-> FALSE, severity |-> "unset"]

\* Qt drops the connections of a widget that is destroyed; the channel
\* name then stands for a new widget.
Destroyed(c, ch) ==
    [c EXCEPT !.wired = {w \in @ : w[1] # ch}, !.listeners = @ \ {ch}]

\* A channel that is attached anew starts unconnected.
Attach(observed, ch) ==
    [observed EXCEPT ![ch].connected = FALSE]

\* The answers describe() can give to the second call of one add_listener
\* (from send_new_value, when no type is latched yet): what it gave to the
\* first, or a raise.  When it is not called the answer is immaterial.
SecondAnswers(got, desc, signal_type) ==
    IF got = Raises \/ ~desc.ok \/ signal_type # NoType
    THEN {DescribeRaises}
    ELSE {desc, DescribeRaises}

\* What the signal s answers during one construction of a connection.
ConstructionAnswers(s) ==
    IF s = NoSignal
    THEN {[got |-> Raises, desc |-> DescribeRaises, desc2 |-> DescribeRaises, sub |-> "none"]}
    ELSE {[got |-> Raises, desc |-> DescribeRaises, desc2 |-> DescribeRaises, sub |-> f] :
             f \in {"value", "meta"}}
         \cup
         UNION {{[got |-> g, desc |-> d, desc2 |-> d2, sub |-> "none"] :
                    d2 \in SecondAnswers(g, d, NoType)} :
                <<g, d>> \in (SignalValues \cup {Raises}) \X DescribeAnswers}

\* A closed connection that no queued call refers to is unreachable: the
\* interpreter drops the object.
Garbage(k, c, calls) ==
    /\ c.state = "closed"
    /\ \A i \in 1 .. Len(calls) : calls[i].conn # k

\* A plugin that records the connection even when its constructor raised.
add_connection_recording(recorded, address, k, raised) ==
    [recorded EXCEPT ![address] = k]

\* SignalPlugin.add_connection: the plugin's connections after the
\* constructor of the object k ended with the exception raised ("none"
\* when it returned).
add_connection(recorded, address, k, raised) ==
    IF raised = "none"
    THEN [recorded EXCEPT ![address] = k]
    ELSE recorded

HasSubscription(k, ev) ==
    /\ conn[k].state # "none"
    /\ \E r \in subs[conn[k].signal] : r.conn = k /\ r.ev = ev

FreeConn == {k \in ConnIds : conn[k].state = "none"}

\* ------------------------------------------------------------------------
\* Panel composition (interface level)
\* ------------------------------------------------------------------------
\* The signals a panel is given: whether the signal reports write access,
\* whether it is written at the address it is read at ("same"), at another
\* one ("distinct") or has no write address ("none"), whether its metadata
\* has enumeration strings, and whether get() and describe() raise.
PanelSignal(name, write_access, write_address, enum, dead) ==
    [name |-> name, write_access |-> write_access, write_address |-> write_address,
     enum |-> enum, dead |-> dead]
PanelSignals ==
    { PanelSignal("Standard", TRUE, "same", FALSE, FALSE),
      PanelSignal("Read and Write", TRUE, "distinct", FALSE, FALSE),
      PanelSignal("Read Only", FALSE, "none", FALSE, FALSE),
      PanelSignal("Write", FALSE, "distinct", FALSE, FALSE),
      PanelSignal("EPICS Enum PV", TRUE, "same", TRUE, FALSE),
      PanelSignal("Enum Readback", FALSE, "none", TRUE, FALSE),
      PanelSignal("Dead Signal", TRUE, "none", FALSE, TRUE) }

\* A panel that gives every row an edit widget.
WriteWidget_always(sig) ==
    IF sig.enum THEN "PyDMEnumComboBox" ELSE "PyDMLineEdit"

\* The edit widget of a signal's row, "none" for a row without one.
WriteWidget(sig) ==
    IF ~(sig.write_access \/ sig.write_address = "distinct")
    THEN "none"
    ELSE IF sig.enum THEN "PyDMEnumComboBox" ELSE "PyDMLineEdit"

\* A panel that gives no row to a signal it cannot read.
add_signal_skipping_dead(rows, sig) ==
    IF sig.dead
    THEN rows
    ELSE Append(rows, [name |-> sig.name, signal |-> sig, read |-> "PyDMLabel",
                       write |-> WriteWidget(sig)])

\* add_signal(signal, name): the rows afterwards.
add_signal(rows, sig) ==
    Append(rows, [name |-> sig.name, signal |-> sig, read |-> "PyDMLabel",
                  write |-> WriteWidget(sig)])

\* ------------------------------------------------------------------------
\* Actions
\* ------------------------------------------------------------------------
Init ==
    /\ signal_registry = [n \in Names |-> NoSignal]
    /\ connections = [n \in Names |-> NoConn]
    /\ conn = [k \in ConnIds |-> Unbuilt]
    /\ subs = [s \in Signals |-> {}]
    /\ queue = <<>>
    /\ chans = [ch \in Channels |-> Unattached]
    /\ unresolved = {}
    /\ panel = <<>>
    /\ last = Ran("init", NoConn, "", "none", "none")
    /\ emitted = <<>>

\* register_signal(s) for a signal of the set S
Register(S) ==
    \E s \in S :
        /\ signal_registry' = register_signal(signal_registry, s)
        /\ last' = [Ran("register_signal", NoConn, "", "none", "none") EXCEPT !.arg = PyStr(s)]
        /\ emitted' = <<>>
        /\ UNCHANGED <<connections, conn, subs, queue, chans, unresolved, panel>>

\* The application registers any of its signals.
RegisterSignal == Register(Signals)

\* The application registers the signal the channels address.
RegisterAddressed == Register({"s1"})

\* SignalPlugin.add_connection(ch) for an address that has a connection:
\* the channel is added to it as a listener.
AddListener ==
    \E ch \in Channels :
        LET k == connections[ChanAddr(ch)] IN
        /\ k # NoConn
        /\ ch \notin conn[k].listeners
        /\ \E got \in SignalValues \cup {Raises}, desc \in DescribeAnswers :
           \E desc2 \in SecondAnswers(got, desc, conn[k].signal_type) :
           LET added == add_listener(conn[k], ch, got, desc, desc2) IN
            /\ conn' = [conn EXCEPT ![k] = added.conn]
            /\ chans' = Deliver(Attach(chans, ch), added.conn.listeners, added.emits)
            /\ last' = [Ran("add_connection", k, ch, added.raised, "none")
                           EXCEPT !.fetch = added.fetch, !.retry = ChanAddr(ch) \in unresolved,
                                  !.arg = got, !.described = desc]
            /\ emitted' = added.emits
        /\ UNCHANGED <<signal_registry, connections, subs, queue, unresolved, panel>>

\* SignalPlugin.add_connection(ch) for an address that has no connection:
\* a SignalConnection is constructed, and recorded unless the constructor
\* raised.
AddConnection ==
    \E ch \in Channels :
        /\ connections[ChanAddr(ch)] = NoConn
        /\ FreeConn # {}
        /\ \E answers \in ConstructionAnswers(signal_registry[ChanAddr(ch)]) :
           LET got == answers.got
               desc == answers.desc
               desc2 == answers.desc2
               sub == answers.sub
               k == CHOOSE i \in FreeConn : \A j \in FreeConn : i <= j
               made == SignalConnection_init(k, ch, signal_registry, subs,
                                             got, desc, desc2, sub)
               attached == ch \in made.conn.listeners
           IN
            /\ conn' = [conn EXCEPT ![k] = made.conn]
            /\ subs' = made.subs
            /\ connections' = add_connection(connections, ChanAddr(ch), k, made.raised)
            /\ chans' = IF attached
                        THEN Deliver(Attach(chans, ch), made.conn.listeners, made.emits)
                        ELSE chans
            /\ unresolved' = CASE made.raised = "KeyError" -> unresolved \cup {ChanAddr(ch)}
                                [] made.raised = "none" -> unresolved \ {ChanAddr(ch)}
                                [] OTHER -> unresolved
            /\ last' = [Ran("add_connection", k, ch, made.raised, "none")
                           EXCEPT !.fetch = made.fetch,
                                  !.life = IF made.raised = "none" THEN "built" ELSE "failed",
                                  !.retry = ChanAddr(ch) \in unresolved,
                                  !.arg = got, !.described = desc]
            /\ emitted' = made.emits
        /\ UNCHANGED <<signal_registry, queue, panel>>

\* SignalPlugin.remove_connection(ch, destroying): the channel is removed
\* from its connection, which closes and is forgotten with its last
\* listener.  destroying tells that the channel's widget is being
\* destroyed.
RemoveConnection ==
    \E ch \in Channels, destroying \in BOOLEAN :
        LET k == connections[ChanAddr(ch)] IN
        /\ k # NoConn
        /\ ch \in conn[k].listeners
        /\ LET removed == remove_listener(conn[k], ch, destroying)
               closing == removed.listeners = {}
               ended == IF closing THEN [removed EXCEPT !.state = "closed"] ELSE removed
               kept == IF Garbage(k, ended, queue) THEN Unbuilt ELSE ended
           IN
            /\ conn' = [i \in ConnIds |->
                           LET c == IF i = k THEN kept ELSE conn[i]
                           IN  IF destroying THEN Destroyed(c, ch) ELSE c]
            /\ subs' = IF closing
                       THEN [subs EXCEPT ![removed.signal] = close(removed, @)]
                       ELSE subs
            /\ connections' = IF closing
                              THEN [connections EXCEPT ![ChanAddr(ch)] = NoConn]
                              ELSE connections
        /\ chans' = IF destroying THEN [chans EXCEPT ![ch] = Unattached] ELSE chans
        /\ last' = [Ran("remove_connection", k, ch, "none", "none")
                       EXCEPT !.arg = PyBool(IF destroying THEN "True" ELSE "False"),
                              !.life = IF conn[k].listeners = {ch} THEN "closed" ELSE "na"]
        /\ emitted' = <<>>
        /\ UNCHANGED <<signal_registry, queue, unresolved, panel>>

\* The signal calls a connection's value callback, with a severity of
\* the set given.
ValueCallback(severities) ==
    \E k \in ConnIds :
        /\ HasSubscription(k, "value")
        /\ \E value \in SignalValues, severity \in severities :
           \E desc \in DescribeAnswers :
           LET sent == send_new_value(conn[k], value, severity, desc) IN
            /\ conn' = [conn EXCEPT ![k].signal_type = sent.signal_type]
            /\ chans' = Deliver(chans, conn[k].listeners, sent.emits)
            /\ last' = [Ran("send_new_value", k, "", "none", sent.raised)
                           EXCEPT !.arg = value, !.severity = severity]
            /\ emitted' = sent.emits
        /\ UNCHANGED <<signal_registry, connections, subs, queue, unresolved, panel>>

\* A signal that reports no alarm state calls back with the value alone.
SendNewValue == ValueCallback({PyNone})

\* A signal that reports alarms calls back with the value and, at times,
\* its severity.
SendAlarmValue == ValueCallback(Severities)

\* The signal calls a connection's metadata callback.
SendMetadata ==
    \E k \in ConnIds :
        /\ HasSubscription(k, "meta")
        /\ \E kwargs \in MetadataKwargs, connected \in BOOLEAN :
           \E desc \in IF connected THEN DescribeAnswers ELSE {DescribeRaises} :
           LET sent == send_metadata(conn[k], kwargs, connected, desc) IN
            /\ chans' = Deliver(chans, conn[k].listeners, sent.emits)
            /\ last' = [Ran("send_metadata", k, "", "none", sent.raised)
                           EXCEPT !.arg = PyBool(IF connected THEN "True" ELSE "False"),
                                  !.described = desc, !.kwargs = kwargs]
            /\ emitted' = sent.emits
        /\ UNCHANGED <<signal_registry, connections, conn, subs, queue, unresolved, panel>>

\* A widget sends an edit on its typed stream: every put_value connected
\* to the stream is queued.
EditRequest ==
    \E ch \in Channels, new_val \in EditValues :
        LET wiredTo == {k \in ConnIds : <<ch, new_val.rep>> \in conn[k].wired} IN
        /\ wiredTo # {}
        /\ Len(queue) < MaxQueue
        /\ LET k == CHOOSE i \in wiredTo : \A j \in wiredTo : i <= j IN
            /\ queue' = Append(queue, [conn |-> k, chan |-> ch, val |-> new_val])
            /\ last' = Ran("edit", k, ch, "none", "none")
        /\ emitted' = <<>>
        /\ UNCHANGED <<signal_registry, connections, conn, subs, chans, unresolved, panel>>

\* The event loop runs the queued put_value call.
PutValue ==
    \E putOK \in BOOLEAN :
        /\ queue # <<>>
        /\ LET call == Head(queue)
               done == put_value(conn[call.conn], call.val, putOK)
           IN
            /\ last' = [Ran("put_value", call.conn, call.chan, "none", done.raised)
                           EXCEPT !.notified = done.notified, !.arg = done.put,
                                  !.fetch = IF putOK THEN "ok" ELSE "failed"]
        /\ queue' = Tail(queue)
        /\ conn' = [k \in ConnIds |-> IF Garbage(k, conn[k], queue') THEN Unbuilt ELSE conn[k]]
        /\ emitted' = <<>>
        /\ UNCHANGED <<signal_registry, connections, subs, chans, unresolved, panel>>

\* panel.add_signal(sig, sig.name)
AddSignal ==
    \E sig \in PanelSignals :
        /\ Len(panel) < MaxRows
        /\ \A i \in 1 .. Len(panel) : panel[i].name # sig.name
        /\ panel' = add_signal(panel, sig)
        /\ last' = [Ran("add_signal", NoConn, "", "none", "none") EXCEPT !.arg = PyStr(sig.name)]
        /\ emitted' = <<>>
        /\ UNCHANGED <<signal_registry, connections, conn, subs, queue, chans, unresolved>>

\* The connections of one address: their listeners and the signal's value
\* callbacks.
Next ==
    \/ RegisterAddressed
    \/ AddListener
    \/ AddConnection
    \/ RemoveConnection
    \/ SendNewValue

Spec == Init /\ [][Next]_vars

\* The registry alone, under every order of registrations.
NextRegistry == RegisterSignal

SpecRegistry == Init /\ [][NextRegistry]_vars

\* The connections with both callbacks of the signal.
NextCallbacks ==
    \/ RegisterAddressed
    \/ AddListener
    \/ AddConnection
    \/ RemoveConnection
    \/ SendNewValue
    \/ SendMetadata

SpecCallbacks == Init /\ [][NextCallbacks]_vars

\* The connections with the edits of the widgets and their queued puts.
NextEdit ==
    \/ RegisterAddressed
    \/ AddListener
    \/ AddConnection
    \/ RemoveConnection
    \/ SendNewValue
    \/ EditRequest
    \/ PutValue

SpecEdit == Init /\ [][NextEdit]_vars

\* The connections of a signal that reports alarm severities.
NextAlarm ==
    \/ RegisterAddressed
    \/ AddListener
    \/ AddConnection
    \/ RemoveConnection
    \/ SendAlarmValue

SpecAlarm == Init /\ [][NextAlarm]_vars

\* A panel that is given signals.
NextPanel == AddSignal

SpecPanel == Init /\ [][NextPanel]_vars

\* ------------------------------------------------------------------------
\* Properties
\* ------------------------------------------------------------------------
\* The registrations the connection k holds, on any signal.
Registrations(k) == UNION {{r \in subs[s] : r.conn = k} : s \in Signals}

\* The connection k is subscribed to the value and the metadata events of
\* its signal, under the handles it keeps.
Active(k) ==
    /\ conn[k].state = "open"
    /\ [cid |-> conn[k].cid, ev |-> "value", conn |-> k] \in subs[conn[k].signal]
    /\ [cid |-> conn[k].mid, ev |-> "meta", conn |-> k] \in subs[conn[k].signal]

EmittedOn(stream) == {i \in 1 .. Len(emitted) : emitted[i].stream = stream}

C2_FailedConnectLeavesUnconnected ==
    (last.op = "add_connection" /\ last.life = "failed") =>
        /\ last.raised = "none"
        /\ \A i \in EmittedOn("connection_state_signal") : emitted[i].val # PyBool("True")
        /\ connections[ChanAddr(last.chan)] = NoConn

\* C3: an add_connection for an address whose earlier attempt found no
\* signal, made once the signal is registered and with no call of the
\* signal raising, records an active Connection: subscribed to the value
\* and the metadata events, with the channel attached.
C3_RetryAfterLookupFailure ==
    (/\ last.op = "add_connection"
     /\ last.retry
     /\ signal_registry[ChanAddr(last.chan)] # NoSignal
     /\ last.caught # "Exception") =>
        /\ last.life = "built"
        /\ connections[ChanAddr(last.chan)] = last.conn
        /\ Active(last.conn)
        /\ last.chan \in conn[last.conn].listeners

\* The retry of a failed lookup built a Connection.
C3_Witness ==
    /\ last.op = "add_connection"
    /\ last.retry
    /\ last.life = "built"
    /\ Active(last.conn)
    /\ last.chan \in conn[last.conn].listeners

\* C4: whenever a connection broadcasts a value, every listener that
\* receives it has observed connected=true since it was attached, and no
\* connected=true follows the value in the same handler.
C4_ConnectedBeforeValue ==
    \A i \in EmittedOn("new_value_signal") :
        /\ \A ch \in conn[last.conn].listeners : chans[ch].connected
        /\ \A j \in EmittedOn("connection_state_signal") : j < i

\* C5: an add_listener whose get() or describe() raised ends without an
\* error, has emitted the no-alarm baseline and nothing else, and has wired
\* no edit stream of the channel to put_value.
C5_FailedFetchAborts ==
    (last.op = "add_connection" /\ last.fetch = "failed") =>
        /\ last.raised = "none"
        /\ last.caught = "none"
        /\ emitted = <<Emission("new_severity_signal", "", PyInt("0"))>>
        /\ \A w \in conn[last.conn].wired : w[1] # last.chan

\* A channel with edit streams was attached while the signal was
\* unreachable.
C5_Witness ==
    /\ last.op = "add_connection"
    /\ last.fetch = "failed"
    /\ last.chan = "c1"
    /\ last.chan \in conn[last.conn].listeners

\* C6: a latched signal_type never changes while the connection lives, and
\* every value a connection broadcasts is an instance of its latched type,
\* sent on the stream of that type.
C6_TypeLatch ==
    /\ [](\A i \in EmittedOn("new_value_signal") :
            /\ emitted[i].typ = conn[last.conn].signal_type
            /\ emitted[i].val.rep = emitted[i].typ)
    /\ [][\A k \in ConnIds :
            (conn[k].signal_type # NoType /\ conn'[k].state # "none")
                => conn'[k].signal_type = conn[k].signal_type]_vars

\* A float update was broadcast as the integer the latched type makes of
\* it.
C6_Witness ==
    /\ last.op = "send_new_value"
    /\ conn[last.conn].signal_type = "int"
    /\ emitted = <<Emission("new_value_signal", "int", PyInt("1"))>>

\* C7: a put_value whose coercion or put raised lets no exception out and
\* notifies the operator, and no put_value changes a live connection, the
\* registrations, the plugin's connections or what a listener observed.
C7_PutFailureIsolated ==
    /\ []((last.op = "put_value" /\ last.arg = Absent) =>
            (last.raised = "none" /\ last.notified))
    /\ []((last.op = "put_value" /\ last.fetch = "failed") => last.arg = Absent)
    /\ [][last'.op = "put_value" =>
            /\ \A k \in ConnIds : conn[k].state = "open" => conn'[k] = conn[k]
            /\ UNCHANGED <<subs, connections, chans, signal_registry>>]_vars

\* A put failed while another connection was alive.
C7_Witness ==
    /\ last.op = "put_value"
    /\ last.arg = Absent
    /\ last.notified
    /\ \E k \in ConnIds : k # last.conn /\ conn[k].state = "open"

\* C8: a value or metadata callback of a connection never lets an
\* exception out.
C8_CallbacksNeverRaise ==
    last.op \in {"send_new_value", "send_metadata"} => last.raised = "none"

\* C9: a recorded connection holds exactly its value and its metadata
\* registration, however many listeners it has; a closed or dropped one
\* holds none, and no callback runs on it.
C9_TwoSubscriptionsUntilClose ==
    /\ \A k \in ConnIds :
        /\ (conn[k].state = "open" /\ connections[conn[k].address] = k) =>
              /\ Registrations(k) = {[cid |-> conn[k].cid, ev |-> "value", conn |-> k],
                                     [cid |-> conn[k].mid, ev |-> "meta", conn |-> k]}
              /\ conn[k].cid # conn[k].mid
        /\ conn[k].state \in {"closed", "none"} => Registrations(k) = {}
    /\ last.op \in {"send_new_value", "send_metadata"} => conn[last.conn].state = "open"

\* The last listener of a connection was removed and the signal is left
\* without registrations.
C9_Witness ==
    /\ last.op = "remove_connection"
    /\ last.life = "closed"
    /\ \A s \in Signals : subs[s] = {}

\* C10: every row has a read-out widget, and has an edit widget exactly
\* when its signal reports write access or has a distinct write address.
C10_WriteWidgetPresence ==
    \A i \in 1 .. Len(panel) :
        /\ panel[i].read # "none"
        /\ panel[i].write # "none"
              <=> (panel[i].signal.write_access \/ panel[i].signal.write_address = "distinct")

\* A panel holds a row with an edit widget and a row without one.
C10_Witness ==
    /\ \E i \in 1 .. Len(panel) : panel[i].write = "none"
    /\ \E i \in 1 .. Len(panel) : panel[i].write # "none" /\ ~panel[i].signal.write_access

\* The panel's signals mapping: the names that have a row.
PanelNames == {panel[i].name : i \in 1 .. Len(panel)}

\* C11: add_signal ends without an error and the name it was given is in
\* the panel's signals mapping afterwards, also for a signal whose get()
\* and describe() raise.
C11_DeadSignalListed ==
    last.op = "add_signal" =>
        /\ last.raised = "none"
        /\ last.arg.v \in PanelNames

\* A signal that raises on get() and describe() was added after another
\* signal and has a row.
C11_Witness ==
    /\ last.op = "add_signal"
    /\ Len(panel) >= 2
    /\ panel[Len(panel)].signal.dead
    /\ panel[Len(panel)].name = last.arg.v

\* The place of a stream in the order of an attach.
AttachRank(stream) ==
    CASE stream = "new_severity_signal" -> 1
      [] stream = "write_access_signal" -> 2
      [] stream = "connection_state_signal" -> 3
      [] stream = "prec_signal" -> 4
      [] stream = "enum_strings_signal" -> 5
      [] stream = "unit_signal" -> 6
      [] stream = "new_value_signal" -> 7
      [] OTHER -> 0

\* The last handler was an add_listener that fetched the signal's value
\* and description and ended without an exception.
AttachSucceeded ==
    /\ last.op = "add_connection"
    /\ last.fetch = "ok"
    /\ last.caught = "none"

\* C12: a successful add_listener emits severity 0, write-access=true and
\* connected=true, then precision, enumeration strings and units in that
\* order, then the current value as the latched type makes it, each at most
\* once; and the channel's edit streams are wired by a successful
\* add_listener only, never by one that the value step ended.
C12_AttachOrder ==
    /\ AttachSucceeded =>
        LET t == conn[last.conn].signal_type
            current == IF t = "array" THEN last.arg ELSE Coerce(t, last.arg)
        IN  /\ Len(emitted) >= 3
            /\ emitted[1] = Emission("new_severity_signal", "", PyInt("0"))
            /\ emitted[2] = Emission("write_access_signal", "", PyBool("True"))
            /\ emitted[3] = Emission("connection_state_signal", "", PyBool("True"))
            /\ \A i, j \in 1 .. Len(emitted) :
                  i < j => 0 < AttachRank(emitted[i].stream)
                           /\ AttachRank(emitted[i].stream) < AttachRank(emitted[j].stream)
            /\ \A i \in EmittedOn("new_value_signal") :
                  emitted[i] = Emission("new_value_signal", t, current)
            /\ (current # Raises /\ current.rep = t) => EmittedOn("new_value_signal") # {}
            /\ ChanHasValueSignal(last.chan) =>
                  \A typ \in ChanValueTypes(last.chan) : <<last.chan, typ>> \in conn[last.conn].wired
    /\ (last.op = "add_connection" /\ ~AttachSucceeded) =>
          (last.conn = NoConn \/ \A w \in conn[last.conn].wired : w[1] # last.chan)

\* An attach emitted the baseline, the connection report, two metadata
\* fields and the current value, and wired the channel.
C12_Witness ==
    /\ AttachSucceeded
    /\ Len(emitted) = 6
    /\ emitted[6].stream = "new_value_signal"
    /\ <<last.chan, "int">> \in conn[last.conn].wired

\* C13: a successful add_listener emits each of precision, enumeration
\* strings and units that the description provides, whatever its value,
\* on the field's stream (a list of enumeration strings as a tuple), and
\* emits nothing for a field the description lacks.
C13_AvailableMetadataEmitted ==
    AttachSucceeded =>
        \A field \in {"precision", "enum_strs", "units"} :
            LET val == last.described.md[field]
                sent == {emitted[i].val : i \in EmittedOn(KeyToSignal(field))}
            IN  IF val \in {Absent, PyNone}
                THEN sent = {}
                ELSE sent = {IF val.rep = "list" THEN PyTuple(val.v) ELSE val}

\* The value send_metadata has for a key after the last callback: the
\* received field, or the description's when the signal reported connected
\* and the callback gave none.
EffectiveMetadata(key) ==
    IF last.arg = PyBool("True") /\ last.kwargs[key] = Absent
    THEN last.described.md[key]
    ELSE last.kwargs[key]

\* C14: a send_metadata that could read its metadata emits, for each known
\* key whose effective value is present and not None, that value once on
\* the key's stream (enumeration strings as a tuple), and nothing else;
\* when the signal does not report connected, describe() is not asked and
\* the call does not raise.
C14_MetadataBroadcast ==
    /\ (last.op = "send_metadata" /\ (last.arg = PyBool("True") => last.described.ok)) =>
        /\ last.raised = "none"
        /\ \A key \in KeySet :
            LET val == EffectiveMetadata(key)
                at == EmittedOn(KeyToSignal(key))
            IN  IF val \in {Absent, PyNone}
                THEN at = {}
                ELSE /\ Cardinality(at) = 1
                     /\ \A i \in at :
                          emitted[i].val = IF key = "enum_strs" THEN PyTuple(val.v) ELSE val
        /\ \A i \in 1 .. Len(emitted) :
              \E key \in KeySet : emitted[i].stream = KeyToSignal(key)
    /\ (last.op = "send_metadata" /\ last.arg = PyBool("False")) => last.raised = "none"

\* A metadata callback on a connected signal overrode the precision of the
\* description and sent the description's limits.
C14_Witness ==
    /\ last.op = "send_metadata"
    /\ last.arg = PyBool("True")
    /\ last.described.md["precision"] = PyInt("3")
    /\ \E i \in EmittedOn("prec_signal") : emitted[i].val = PyInt("2")
    /\ EmittedOn("upper_ctrl_limit_signal") # {}
    /\ EmittedOn("unit_signal") = {}

\* What the latched type of the last handler's connection makes of the
\* value the handler was given; Raises when it cannot be broadcast.
Broadcastable ==
    LET t == conn[last.conn].signal_type
        made == IF t = "array" THEN last.arg ELSE Coerce(t, last.arg)
    IN  IF made # Raises /\ made.rep = t THEN made ELSE Raises

\* C15: a value callback emits the value exactly when the latched type
\* can make it, whatever earlier callbacks were given, and emits the
\* severity it was given also when the value was dropped; every listener of
\* the connection receives it; and no value callback changes the listeners,
\* the edit wiring, the registrations or a latched type.
C15_CoercionFailureDropsOneValue ==
    /\ []((last.op = "send_new_value" /\ last.raised = "none") =>
            /\ IF Broadcastable = Raises
               THEN EmittedOn("new_value_signal") = {}
               ELSE /\ Cardinality(EmittedOn("new_value_signal")) = 1
                    /\ emitted[1] = Emission("new_value_signal",
                                              conn[last.conn].signal_type, Broadcastable)
            /\ IF last.severity = PyNone
               THEN EmittedOn("new_severity_signal") = {}
               ELSE /\ emitted # <<>>
                    /\ emitted[Len(emitted)] = Emission("new_severity_signal", "", last.severity)
                    /\ \A ch \in conn[last.conn].listeners :
                          chans[ch].severity = last.severity.v)
    /\ [][last'.op = "send_new_value" =>
            /\ subs' = subs
            /\ \A k \in ConnIds :
                  /\ conn'[k].listeners = conn[k].listeners
                  /\ conn'[k].wired = conn[k].wired
                  /\ conn[k].signal_type # NoType => conn'[k].signal_type = conn[k].signal_type]_vars

\* An update whose value the latched type cannot make delivered its
\* severity, and nothing else, to two listeners.
C15_Witness ==
    /\ last.op = "send_new_value"
    /\ conn[last.conn].signal_type = "int"
    /\ last.arg = PyArray("[1 2]")
    /\ emitted = <<Emission("new_severity_signal", "", PyInt("2"))>>
    /\ conn[last.conn].listeners = Channels
    /\ \A ch \in Channels : chans[ch].severity = "2"

\* C16: after a remove_listener with destroying=false none of the
\* channel's edit streams is wired to the connection's put_value, and a
\* put_value that runs next for an edit of that channel, queued before the
\* detach, puts nothing on the signal.
C16_DetachLeavesNoEdit ==
    /\ []((last.op = "remove_connection" /\ last.arg = PyBool("False")) =>
            \A w \in conn[last.conn].wired : w[1] # last.chan)
    /\ [][(/\ last.op = "remove_connection"
            /\ last.arg = PyBool("False")
            /\ last'.op = "put_value"
            /\ last'.conn = last.conn
            /\ last'.chan = last.chan) => last'.arg = Absent]_vars

\* C17: a connection that has an edit stream wired to its put_value, or a
\* put_value call waiting in the queue, has its signal_type latched.
C17_WiredImpliesLatched ==
    /\ \A k \in ConnIds : conn[k].wired # {} => conn[k].signal_type \in TypeTags
    /\ \A i \in 1 .. Len(queue) : conn[queue[i].conn].signal_type \in TypeTags

\* An edit waits for the put_value of a connection whose channel is wired.
C17_Witness ==
    /\ queue # <<>>
    /\ <<queue[1].chan, queue[1].val.rep>> \in conn[queue[1].conn].wired
    /\ conn[queue[1].conn].signal_type = "float"

\* C18: an add_listener on a connection that has listeners changes
\* nothing of what those listeners have observed: neither their connection
\* state nor their last alarm severity.
C18_AttachLeavesOthers ==
    [][(last'.op = "add_connection" /\ last'.life = "na") =>
            \A ch \in conn[last'.conn].listeners : chans'[ch] = chans[ch]]_vars

\* C19: every callback registration on a signal belongs to a connection
\* that the plugin records and that is not closed; a construction that
\* failed has left no registration.
C19_NoSubscriptionLeak ==
    /\ \A s \in Signals : \A r \in subs[s] :
          /\ conn[r.conn].state = "open"
          /\ connections[conn[r.conn].address] = r.conn
    /\ (last.op = "add_connection" /\ last.life = "failed") => Registrations(last.conn) = {}

====
